---- MODULE Spec2Model ----
(***************************************************************************)
(* The chunked audit pipeline of src/main.py (audit_claims, build_summary) *)
(* as a state machine.  One run of audit_claims is one behaviour: the      *)
(* claim table is fixed at Init, the reasoning capability (Gemini) is the  *)
(* environment and answers each call with any value of a small universe.   *)
(*                                                                         *)
(* Python dicts are functions whose DOMAIN is the set of keys present, so  *)
(* "k in d" is  k \in DOMAIN d.  JSON scalars that the code converts with  *)
(* int() / float() are tagged: Num(n) converts, NonNumeric raises.         *)
(* Money is integral; every amount of the model is a multiple of 10, so    *)
(* that 0.70 * A is the integer (7 * A) \div 10, and R <= 1.5 * A is       *)
(* 2 * R <= 3 * A.                                                         *)
(***************************************************************************)
EXTENDS Integers, Sequences, FiniteSets, TLC

VARIABLES
    total_claims,         \* len(df)
    chunk_size,           \* local chunk_size
    chunk_idx,            \* enumerate(..., 1) counter of the chunk loop (0 before it)
    chunk_start,          \* loop variable chunk_start
    chunk_end,            \* chunk_end of the current chunk
    pc,                   \* position of the handler
    response,             \* what the last model.generate_content(chunk_prompt) gave
    ai_output,            \* json.loads(response_text) of the current chunk
    chunk_flagged,        \* ai_output.get("flagged_claims", [])
    chunk_recovery,       \* float(ai_output.get("total_recovery", 0))
    all_flagged,          \* accumulated findings
    total_recovery,       \* running recovery total
    flagged,              \* the findings list of the result
    total_flagged_amount, \* sum of the findings' amounts
    recovery_potential,   \* the recovery estimate
    denial_stats,         \* dict code -> stats, as a sequence in insertion order
    appeal_idx,           \* enumerate(flagged, 1) counter of the appeal loop
    appeals,              \* generated letters and placeholders
    result,               \* the AuditResult returned, NoResult until then
    error,                \* the HTTPException raised to the caller, NoError until then
    chunks,               \* history: the (chunk_start, chunk_end) pairs the loop produced
    received,             \* history: per parsed chunk, its start and flagged_claims as returned
    calls                 \* history: the model.generate_content calls made, in order

vars == << total_claims, chunk_size, chunk_idx, chunk_start, chunk_end, pc, response,
           ai_output, chunk_flagged, chunk_recovery, all_flagged, total_recovery,
           flagged, total_flagged_amount, recovery_potential, denial_stats,
           appeal_idx, appeals, result, error, chunks, received, calls >>

---------------------------------------------------------------------------
(* Bounds of the model *)

MaxChunks == 2        \* Spec: the claim table spans at most MaxChunks chunks
MaxFlagged == 2       \* Spec: findings returned by the capability over one run
MaxClaims == 12       \* SpecChunks: total_claims ranges over 1..MaxClaims
MaxChunkSize == 5     \* SpecChunks: chunk_size ranges over 1..MaxChunkSize
MaxMoney == 40        \* SpecEstimator: range of R and A
MaxAppeals == 3       \* SpecAppeals: findings handed to the appeal generator
MaxSummaryCodes == 6  \* SpecSummary: distinct denial codes among the findings
MaxCodeCount == 3     \* SpecSummary: findings of one denial code
MaxCallFindings == 21 \* SpecCalls: findings one chunk may return
MaxAppealFailures == 2 \* SpecCalls: appeal calls of one run that give no letter

(* Program constants *)

DefaultChunkSize == 50   \* chunk_size = 50
AppealCap == 20          \* if idx > 20: break
TopProse == 3            \* top_denials[:3]
TopStructured == 5       \* top_denials[:5]

---------------------------------------------------------------------------
(* Values *)

Min(a, b) == IF a <= b THEN a ELSE b

EmptyDict == << >>
Put(d, k, v) == (k :> v) @@ d            \* d[k] = v
Has(d, k) == k \in DOMAIN d              \* k in d

Num(n) == [t |-> "num", n |-> n]         \* a JSON number
NonNumeric == [t |-> "str", n |-> 0]     \* a JSON string such as "n/a": int()/float() raise
IsNum(v) == v.t = "num"
Truthy(v) == v.t = "str" \/ v.n # 0      \* Python truth value of a scalar

NoResult == << >>
NoError == << >>

\* DENIAL_RULES: the codes it has a description for
DENIAL_RULES ==
    { "CO-11", "CO-15", "CO-97", "CO-167", "CO-4", "CO-18", "CO-19", "CO-22",
      "CO-24", "CO-27", "CO-29", "CO-50", "CO-96", "CO-109", "CO-110", "CO-119",
      "PR-1", "PR-2", "PR-3", "PR-96", "OA-18", "OA-23" }

\* DENIAL_RULES.get(denial_code, 'Unknown denial code')
Description(code) ==
    IF code \in DENIAL_RULES THEN "rule " \o code ELSE "Unknown denial code"

\* The claim table: row r of df.  patient_id is numeric in the table (the code
\* applies str() to it), amounts cycle through 10, 20, 0.
df(r) ==
    [ patient_id     |-> 1000 + r,
      procedure_code |-> "CPT" \o ToString(r % 2),
      diagnosis_code |-> "ICD" \o ToString(r % 2),
      amount         |-> 10 * ((r + 1) % 3) ]

---------------------------------------------------------------------------
(* The reasoning capability: what model.generate_content may return *)

Opt(k, V) == {EmptyDict} \cup {k :> v : v \in V}

\* A RawFinding as the prompt asks for it: row, denial_code, reason
Finding(row, code, reason) ==
    ("row" :> row) @@ ("denial_code" :> code) @@ ("reason" :> reason)

\* The RawFindings the capability draws from: well-formed ones, others with
\* a row it cannot have (0, beyond the chunk, not a number, none), with
\* amounts of its own (numeric or not), with fields of the table, and without
\* denial_code and reason.
RawFindings ==
    { Finding(Num(1), "CO-11", "r1"),
      Put(Finding(Num(0), "XX-99", "r0"), "patient_id", "P-AI"),
      Finding(NonNumeric, "CO-11", "r1"),
      ("denial_code" :> "CO-11") @@ ("reason" :> "norow"),
      ("row" :> Num(1)),
      Put(Finding(Num(2), "CO-15", "r2"), "claim_amount", Num(70)),
      Put(Finding(Num(2), "CO-11", "r2"), "claim_amount", NonNumeric),
      Put(Finding(Num(1), "CO-15", "r1"), "amount", Num(30)),
      Put(Finding(Num(2), "CO-15", "r2"), "amount", NonNumeric) }

\* Lists of at most n RawFindings
RECURSIVE FindingLists(_)
FindingLists(n) ==
    IF n = 0 THEN { << >> }
    ELSE LET shorter == FindingLists(n - 1)
         IN  shorter \cup { Append(l, f) : l \in { s \in shorter : Len(s) = n - 1 },
                                           f \in RawFindings }

RecoveryValues == { Num(0), Num(30), NonNumeric }

\* The JSON documents: an array, or an object with or without each key
Docs(n) ==
    { [syntax |-> "array", obj |-> EmptyDict] }
    \cup { [syntax |-> "object", obj |-> fc @@ tr] :
             fc \in Opt("flagged_claims", FindingLists(n)),
             tr \in Opt("total_recovery", RecoveryValues) }

\* response.text as tokens: the opening fence tagged json, the bare fence (three
\* backquotes), the document, whitespace, any other text
FenceJson == "fence-json"
Fence == "fence"
Doc == "doc"
Ws == "ws"
Prose == "prose"

Texts ==
    { << Doc >>,
      << FenceJson, Ws, Doc, Ws, Fence >>,
      << Ws, Fence, Doc, Fence, Ws >>,
      << Fence, Prose, Doc, Fence >>,
      << Prose, FenceJson, Doc, Fence >>,
      << >> }

\* the texts that are the document once the fences are off
CleanTexts == { << Doc >>, << FenceJson, Ws, Doc, Ws, Fence >>, << Ws, Fence, Doc, Fence, Ws >> }

NoDoc == [syntax |-> "invalid", obj |-> EmptyDict]

\* What one call may return: None, an object without .text, or text; the
\* document matters only in a text that is nothing but the document
Responses(n) ==
    { [kind |-> k, text |-> << >>, doc |-> NoDoc] : k \in {"None", "NoText"} }
    \cup { [kind |-> "Text", text |-> t, doc |-> NoDoc] : t \in Texts }
    \cup { [kind |-> "Text", text |-> t, doc |-> d] : t \in CleanTexts, d \in Docs(n) }

\* A well-formed answer with no findings
QuietResponses ==
    { [kind |-> "Text", text |-> << Doc >>,
       doc |-> [syntax |-> "object",
                obj |-> ("flagged_claims" :> << >>) @@ ("total_recovery" :> Num(0))]] }

---------------------------------------------------------------------------
(* Audit Requester: fence stripping and parsing *)

RECURSIVE LStrip(_)
LStrip(s) == IF s # << >> /\ Head(s) = Ws THEN LStrip(Tail(s)) ELSE s

RECURSIVE RStrip(_)
RStrip(s) ==
    IF s # << >> /\ s[Len(s)] = Ws THEN RStrip(SubSeq(s, 1, Len(s) - 1)) ELSE s

\* str.strip()
Strip(s) == RStrip(LStrip(s))

\* lines 250-259
StripFences(text) ==
    LET t0 == Strip(text)
        t1 == IF t0 # << >> /\ Head(t0) = FenceJson THEN Tail(t0)
              ELSE IF t0 # << >> /\ Head(t0) = Fence THEN Tail(t0)
              ELSE t0
        t2 == IF t1 # << >> /\ t1[Len(t1)] = Fence THEN SubSeq(t1, 1, Len(t1) - 1)
              ELSE t1
    IN  Strip(t2)

\* json.loads(response_text) succeeds
Parseable(text, doc) == StripFences(text) = << Doc >> /\ doc.syntax # "invalid"

---------------------------------------------------------------------------
(* Chunk Scheduler: range(0, len(df), chunk_size) and chunk_end *)

\* the value range(0, N, C) yields after `start` (0 first)
NextChunkStart(idx, start, C) == IF idx = 0 THEN 0 ELSE start + C

\* a chunk end that is not clamped to the table
ChunkEnd_Unclamped(start, C, N) == start + C

\* chunk_end = min(chunk_start + chunk_size, len(df))
ChunkEnd(start, C, N) == Min(start + C, N)

---------------------------------------------------------------------------
(* Response Reconciler: lines 266-283, for one claim of chunk_flagged *)

\* int(claim.get('row', 1)) does not raise
RowConvertible(claim) == Has(claim, "row") => IsNum(claim.row)

\* if 'row' in claim: claim['row'] = chunk_start + original_row - 1
AdjustRow(claim, start) ==
    IF Has(claim, "row") THEN Put(claim, "row", Num(start + claim.row.n - 1)) ELSE claim

\* row_idx = claim.get('row', chunk_start)
RowIdx(claim, start) == IF Has(claim, "row") THEN claim.row.n ELSE start

\* isinstance(row_idx, int) and 0 <= row_idx < len(df)
RowValid(row_idx, N) == 0 <= row_idx /\ row_idx < N

\* if k not in claim: claim[k] = v
CopyIfAbsent(claim, k, v) == IF Has(claim, k) THEN claim ELSE Put(claim, k, v)

\* the table's amount set only when the capability gave none
SetClaimAmount_IfAbsent(claim, row_idx) ==
    CopyIfAbsent(claim, "claim_amount", Num(df(row_idx).amount))

\* claim['claim_amount'] = float(df.iloc[row_idx]['amount'])
SetClaimAmount(claim, row_idx) == Put(claim, "claim_amount", Num(df(row_idx).amount))

\* lines 275-283
Enrich(claim, row_idx) ==
    LET c1 == CopyIfAbsent(claim, "patient_id", ToString(df(row_idx).patient_id))
        c2 == CopyIfAbsent(c1, "procedure_code", df(row_idx).procedure_code)
        c3 == CopyIfAbsent(c2, "diagnosis_code", df(row_idx).diagnosis_code)
    IN  SetClaimAmount(c3, row_idx)

ReconcileClaim(claim, start, N) ==
    LET c == AdjustRow(claim, start)
        row_idx == RowIdx(c, start)
    IN  IF RowValid(row_idx, N) THEN Enrich(c, row_idx) ELSE c

\* findings with a row outside the table discarded
ReconcileChunk_DropInvalid(cf, start, N) ==
    LET Kept(c) == RowValid(RowIdx(AdjustRow(c, start), start), N)
        kept == SelectSeq(cf, Kept)
    IN  [i \in 1..Len(kept) |-> ReconcileClaim(kept[i], start, N)]

\* the loop of line 266 over chunk_flagged (the claims are changed in place)
ReconcileChunk(cf, start, N) == [i \in 1..Len(cf) |-> ReconcileClaim(cf[i], start, N)]

---------------------------------------------------------------------------
(* The handler *)

loopVars == << total_claims, chunk_size, chunk_idx, chunk_start, chunk_end, chunks >>
reqVars  == << ai_output, chunk_flagged, chunk_recovery, received >>
accVars  == << all_flagged, total_recovery >>
postVars == << flagged, total_flagged_amount, recovery_potential, denial_stats,
               appeal_idx, appeals >>

\* The table sizes of Spec: one claim and a full chunk, for each number of chunks
ClaimCounts ==
    { (k - 1) * DefaultChunkSize + d : k \in 1..MaxChunks, d \in {1, DefaultChunkSize} }

\* lines 202-228: the locals before the chunk loop
InitLocals ==
    /\ chunk_idx = 0
    /\ chunk_start = 0
    /\ chunk_end = 0
    /\ pc = "Scheduled"
    /\ response = [kind |-> "none yet", json |-> "none"]
    /\ ai_output = [syntax |-> "none", obj |-> EmptyDict]
    /\ chunk_flagged = << >>
    /\ chunk_recovery = 0
    /\ all_flagged = << >>
    /\ total_recovery = 0
    /\ flagged = << >>
    /\ total_flagged_amount = 0
    /\ recovery_potential = 0
    /\ denial_stats = << >>
    /\ appeal_idx = 0
    /\ appeals = << >>
    /\ result = NoResult
    /\ error = NoError
    /\ chunks = << >>
    /\ received = << >>
    /\ calls = << >>

Init ==
    /\ total_claims \in ClaimCounts
    /\ chunk_size = DefaultChunkSize
    /\ InitLocals

\* raise HTTPException(500, detail): what reaches the caller through the
\* handlers of lines 366-369 and 391-392
HTTPError(detail, cause, chunk) ==
    [status |-> 500, detail |-> detail, cause |-> cause, chunk |-> chunk]

Fail(e) ==
    /\ pc' = "Failed"
    /\ error' = e
    /\ result' = result

\* line 232: the for statement takes the next chunk or leaves the loop
ChunkLoop ==
    /\ pc = "Scheduled"
    /\ LET start == NextChunkStart(chunk_idx, chunk_start, chunk_size)
       IN  IF start < total_claims
           THEN /\ chunk_idx' = chunk_idx + 1
                /\ chunk_start' = start
                /\ chunk_end' = ChunkEnd(start, chunk_size, total_claims)
                /\ chunks' = Append(chunks, << start, chunk_end' >>)
                /\ pc' = "Requesting"
           ELSE /\ pc' = "Summing"
                /\ UNCHANGED << chunk_idx, chunk_start, chunk_end, chunks >>
    /\ UNCHANGED << total_claims, chunk_size, response, reqVars, accVars, postVars,
                    result, error, calls >>

\* the chunk skipped instead of the run failed
RaiseNoResponse_Skip(r) ==
    /\ response' = [kind |-> r.kind, json |-> "none"]
    /\ pc' = "Scheduled"
    /\ UNCHANGED << reqVars, result, error >>

\* lines 246-247: no response, or one without text
RaiseNoResponse(r) ==
    /\ response' = [kind |-> r.kind, json |-> "none"]
    /\ Fail(HTTPError("AI processing error", "No response from AI model",
                      chunk_start \div chunk_size + 1))
    /\ UNCHANGED reqVars

\* line 261 raises json.JSONDecodeError, handled at line 366
RaiseParseError(r) ==
    /\ response' = [kind |-> r.kind, json |-> "invalid"]
    /\ Fail(HTTPError("AI response parse error", "JSONDecodeError", 0))
    /\ UNCHANGED reqVars

\* lines 261-263 on parsed JSON
Extract(r) ==
    LET out == r.doc.obj
        tr  == IF Has(out, "total_recovery") THEN out.total_recovery ELSE Num(0)
        fc  == IF Has(out, "flagged_claims") THEN out.flagged_claims ELSE << >>
    IN  /\ response' = [kind |-> r.kind, json |-> "ok"]
        /\ ai_output' = r.doc
        /\ IF r.doc.syntax # "object"
           THEN \* ai_output.get: a list has no attribute get
                /\ Fail(HTTPError("AI processing error", "AttributeError", 0))
                /\ UNCHANGED << chunk_flagged, chunk_recovery, received >>
           ELSE IF ~IsNum(tr)
           THEN \* float("n/a") raises ValueError
                /\ chunk_flagged' = fc
                /\ Fail(HTTPError("AI processing error", "ValueError", 0))
                /\ UNCHANGED << chunk_recovery, received >>
           ELSE /\ chunk_flagged' = fc
                /\ chunk_recovery' = tr.n
                /\ received' = Append(received, [start |-> chunk_start, flagged_claims |-> fc])
                /\ pc' = "Reconciling"
                /\ UNCHANGED << result, error >>

\* line 244: model.generate_content(chunk_prompt) for chunk idx
AuditCall(idx) == [kind |-> "audit", n |-> idx]

\* the call made again for the same chunk when the capability gave no response
RequestFrom_Retry(R) ==
    /\ pc = "Requesting"
    /\ \E r \in R :
         IF r.kind # "Text"
         THEN /\ response' = [kind |-> r.kind, json |-> "none"]
              /\ pc' = pc
              /\ UNCHANGED << reqVars, result, error >>
         ELSE IF ~Parseable(r.text, r.doc) THEN RaiseParseError(r)
         ELSE Extract(r)
    /\ calls' = Append(calls, AuditCall(chunk_idx))
    /\ UNCHANGED << loopVars, accVars, postVars >>

\* lines 244-263: one call of the capability for the current chunk
RequestFrom(R) ==
    /\ pc = "Requesting"
    /\ \E r \in R :
         IF r.kind # "Text" THEN RaiseNoResponse(r)
         ELSE IF ~Parseable(r.text, r.doc) THEN RaiseParseError(r)
         ELSE Extract(r)
    /\ calls' = Append(calls, AuditCall(chunk_idx))
    /\ UNCHANGED << loopVars, accVars, postVars >>

Request == RequestFrom(Responses(MaxFlagged - Len(all_flagged)))

\* lines 266-286
Reconcile ==
    /\ pc = "Reconciling"
    /\ IF \E i \in 1..Len(chunk_flagged) : ~RowConvertible(chunk_flagged[i])
       THEN /\ Fail(HTTPError("AI processing error", "ValueError", 0))
            /\ UNCHANGED accVars
       ELSE /\ all_flagged' = all_flagged \o ReconcileChunk(chunk_flagged, chunk_start, total_claims)
            /\ total_recovery' = total_recovery + chunk_recovery
            /\ pc' = "Scheduled"
            /\ UNCHANGED << result, error >>
    /\ UNCHANGED << calls, loopVars, response, reqVars, postVars >>

---------------------------------------------------------------------------
(* Lines 289-300: the findings of the result and their total amount *)

\* float(claim['claim_amount']) at line 295 raises: it is outside any try
SummingRaises(fl) ==
    \E i \in 1..Len(fl) : Has(fl[i], "claim_amount") /\ ~IsNum(fl[i].claim_amount)

\* what one claim adds to total_flagged_amount
FlaggedAmountTerm(claim) ==
    IF Has(claim, "claim_amount") THEN claim.claim_amount.n
    ELSE IF Has(claim, "amount") /\ IsNum(claim.amount) THEN claim.amount.n
    ELSE 0

RECURSIVE SumFlaggedAmount(_)
SumFlaggedAmount(fl) ==
    IF fl = << >> THEN 0
    ELSE FlaggedAmountTerm(Head(fl)) + SumFlaggedAmount(Tail(fl))

Summing ==
    /\ pc = "Summing"
    /\ flagged' = all_flagged
    /\ IF SummingRaises(all_flagged)
       THEN /\ Fail(HTTPError("AI processing error", "ValueError", 0))
            /\ UNCHANGED total_flagged_amount
       ELSE /\ total_flagged_amount' = SumFlaggedAmount(all_flagged)
            /\ pc' = "Estimating"
            /\ UNCHANGED << result, error >>
    /\ UNCHANGED << calls, loopVars, response, reqVars, accVars, recovery_potential,
                    denial_stats, appeal_idx, appeals >>

---------------------------------------------------------------------------
(* Recovery Estimator: lines 302-308, R = total_recovery, A = total_flagged_amount *)

\* the capability's total trusted whenever it is positive
RecoveryEstimate_Trusting(R, A) ==
    IF R > 0 THEN R
    ELSE IF A > 0 THEN (7 * A) \div 10
    ELSE 0

RecoveryEstimate(R, A) ==
    IF R > 0 /\ 2 * R <= 3 * A THEN R
    ELSE IF A > 0 THEN (7 * A) \div 10
    ELSE IF R > 0 THEN R ELSE 0

Estimate ==
    /\ pc = "Estimating"
    /\ recovery_potential' = RecoveryEstimate(total_recovery, total_flagged_amount)
    /\ pc' = "Aggregating"
    /\ UNCHANGED << calls, loopVars, response, reqVars, accVars, flagged, total_flagged_amount,
                    denial_stats, appeal_idx, appeals, result, error >>

---------------------------------------------------------------------------
(* Denial Aggregator: lines 310-325 *)

\* the default of the appeal prompt used for the bucket
DenialCodeOf_NA(claim) == IF Has(claim, "denial_code") THEN claim.denial_code ELSE "N/A"

\* claim.get('denial_code', 'UNKNOWN')
DenialCodeOf(claim) == IF Has(claim, "denial_code") THEN claim.denial_code ELSE "UNKNOWN"

\* the position of code in denial_stats, 0 when it is not a key
StatsIndex(stats, code) ==
    IF \E k \in 1..Len(stats) : stats[k].code = code
    THEN CHOOSE k \in 1..Len(stats) : stats[k].code = code
    ELSE 0

\* claim_amt = claim.get('claim_amount') or claim.get('amount', 0); float(claim_amt)
\* in a try: what the claim adds to its bucket's total_amount
StatsAmountTerm(claim) ==
    LET claim_amt == IF Has(claim, "claim_amount") /\ Truthy(claim.claim_amount)
                     THEN claim.claim_amount
                     ELSE IF Has(claim, "amount") THEN claim.amount
                     ELSE Num(0)
    IN  IF IsNum(claim_amt) THEN claim_amt.n ELSE 0

\* one iteration of the loop of line 312
AggregateClaim(stats, claim) ==
    LET code == DenialCodeOf(claim)
        s1 == IF StatsIndex(stats, code) = 0
              THEN Append(stats, [code |-> code, count |-> 0, total_amount |-> 0,
                                  description |-> Description(code)])
              ELSE stats
        k == StatsIndex(s1, code)
    IN  [s1 EXCEPT ![k].count = @ + 1, ![k].total_amount = @ + StatsAmountTerm(claim)]

RECURSIVE AggregateAll(_, _)
AggregateAll(stats, fl) ==
    IF fl = << >> THEN stats
    ELSE AggregateAll(AggregateClaim(stats, Head(fl)), Tail(fl))

Aggregate ==
    /\ pc = "Aggregating"
    /\ denial_stats' = AggregateAll(<< >>, flagged)
    /\ pc' = "AppealGenerating"
    /\ UNCHANGED << calls, loopVars, response, reqVars, accVars, flagged, total_flagged_amount,
                    recovery_potential, appeal_idx, appeals, result, error >>

---------------------------------------------------------------------------
(* Appeal Generator: lines 329-364 *)

\* What model.generate_content(appeal_prompt) may do: return text, return
\* None, return an object without .text, raise
AppealOutcomes == { "Text", "None", "NoText", "Raise" }

\* appeal_resp.text of the call made for finding idx
Letter(idx) == [kind |-> "letter", call |-> idx, reason |-> ""]

\* f"Appeal generation failed for issue: {issue.get('reason', 'Unknown')}"
Placeholder(issue) ==
    [kind |-> "placeholder", call |-> 0,
     reason |-> IF Has(issue, "reason") THEN issue.reason ELSE "Unknown"]

\* lines 359-364 for one finding
AppealStep(aps, issue, idx, outcome) ==
    CASE outcome = "Text"  -> Append(aps, Letter(idx))
      [] outcome = "Raise" -> Append(aps, Placeholder(issue))
      [] OTHER             -> aps

\* line 359: model.generate_content(appeal_prompt) for finding idx
AppealCall(idx) == [kind |-> "appeal", n |-> idx]

GenerateAppealFrom(outcomes) ==
    /\ pc = "AppealGenerating"
    /\ LET idx == appeal_idx + 1
       IN  IF idx > Len(flagged) \/ idx > AppealCap
           THEN /\ pc' = "Summarizing"
                /\ UNCHANGED << appeal_idx, appeals, calls >>
           ELSE /\ \E outcome \in outcomes :
                      appeals' = AppealStep(appeals, flagged[idx], idx, outcome)
                /\ calls' = Append(calls, AppealCall(idx))
                /\ appeal_idx' = idx
                /\ pc' = pc
    /\ UNCHANGED << loopVars, response, reqVars, accVars, flagged, total_flagged_amount,
                    recovery_potential, denial_stats, result, error >>

\* the appeal loop when every appeal call returns text
GenerateAppeal == GenerateAppealFrom({ "Text" })

\* the appeal loop, whatever each appeal call does
GenerateAppealAny == GenerateAppealFrom(AppealOutcomes)

---------------------------------------------------------------------------
(* Summary Builder: build_summary, lines 87-146 *)

Take(s, n) == SubSeq(s, 1, Min(n, Len(s)))

\* a sort that is not stable: e goes before the entries of its own count
InsertByCount_Unstable(sorted, e) ==
    LET n == Cardinality({ k \in 1..Len(sorted) : sorted[k].count > e.count })
    IN  SubSeq(sorted, 1, n) \o << e >> \o SubSeq(sorted, n + 1, Len(sorted))

\* e goes behind every entry whose count is at least its own
InsertByCount(sorted, e) ==
    LET n == Cardinality({ k \in 1..Len(sorted) : sorted[k].count >= e.count })
    IN  SubSeq(sorted, 1, n) \o << e >> \o SubSeq(sorted, n + 1, Len(sorted))

\* sorted(denial_stats.items(), key=count, reverse=True): stable
RECURSIVE SortByCount(_, _)
SortByCount(sorted, stats) ==
    IF stats = << >> THEN sorted
    ELSE SortByCount(InsertByCount(sorted, Head(stats)), Tail(stats))

\* data.get("description") or DENIAL_RULES.get(code, ""), as tested at line 125
HasDescription(data) ==
    (IF data.description # "" THEN data.description
     ELSE IF data.code \in DENIAL_RULES THEN "rule " \o data.code ELSE "") # ""

build_summary(n_claims, fl, stats, recovery, amount) ==
    IF Len(fl) = 0
    THEN [ headline |-> "all clear", flagged_count |-> 0,
           top_prose |-> << >>, recommended_actions |-> << "share", "re-run" >>,
           top_denials |-> << >> ]
    ELSE LET top_denials == SortByCount(<< >>, stats)
             top3 == Take(top_denials, TopProse)
         IN  [ headline |-> "flagged", flagged_count |-> Len(fl),
               top_prose |-> [k \in 1..Len(top3) |-> top3[k].code],
               recommended_actions |->
                   LET described == SelectSeq(top3, HasDescription)
                       actions == [k \in 1..Len(described) |-> described[k].code]
                   IN  (IF actions = << >> THEN << "review" >> ELSE actions)
                       \o (IF recovery > 0 THEN << "prioritize" >> ELSE << >>),
               top_denials |-> Take(top_denials, TopStructured) ]

\* lines 372-389
Summarize ==
    /\ pc = "Summarizing"
    /\ result' = [ total_claims         |-> total_claims,
                   flagged              |-> flagged,
                   recovery_estimate    |-> recovery_potential,
                   appeals              |-> appeals,
                   denial_stats         |-> denial_stats,
                   total_flagged_amount |-> total_flagged_amount,
                   summary |-> build_summary(total_claims, flagged, denial_stats,
                                             recovery_potential, total_flagged_amount) ]
    /\ pc' = "Complete"
    /\ UNCHANGED << calls, loopVars, response, reqVars, accVars, postVars, error >>

---------------------------------------------------------------------------
(* The specifications *)

Next ==
    \/ ChunkLoop
    \/ Request
    \/ Reconcile
    \/ Summing
    \/ Estimate
    \/ Aggregate
    \/ GenerateAppeal
    \/ Summarize

Spec == Init /\ [][Next]_vars

\* The chunk loop alone, for every table size and chunk size of the bounds; the
\* capability answers every chunk with a well-formed, empty audit
InitChunks ==
    /\ total_claims \in 1..MaxClaims
    /\ chunk_size \in 1..MaxChunkSize
    /\ InitLocals

RequestQuiet == RequestFrom(QuietResponses)

NextChunks ==
    \/ ChunkLoop
    \/ RequestQuiet
    \/ Reconcile

SpecChunks == InitChunks /\ [][NextChunks]_vars

\* The appeal generator and what follows it, whatever each appeal call does:
\* the handler as it stands before line 329 when a table of one claim was
\* audited in one chunk, the capability having returned any list of at most
\* MaxAppeals of these RawFindings and no total_recovery
AppealFindings ==
    { Finding(Num(1), "CO-11", "r1"),
      ("row" :> Num(1)),
      Put(Finding(Num(2), "CO-15", "r2"), "claim_amount", Num(70)) }

RECURSIVE AppealLists(_)
AppealLists(n) ==
    IF n = 0 THEN { << >> }
    ELSE LET shorter == AppealLists(n - 1)
         IN  shorter \cup { Append(l, f) : l \in { s \in shorter : Len(s) = n - 1 },
                                           f \in AppealFindings }

InitAppeals ==
    /\ total_claims = 1
    /\ chunk_size = DefaultChunkSize
    /\ chunk_idx = 1
    /\ chunk_start = 0
    /\ chunk_end = 1
    /\ chunks = << << 0, 1 >> >>
    /\ pc = "AppealGenerating"
    /\ response = [kind |-> "Text", json |-> "ok"]
    /\ chunk_flagged \in AppealLists(MaxAppeals)
    /\ ai_output = [syntax |-> "object", obj |-> ("flagged_claims" :> chunk_flagged)]
    /\ chunk_recovery = 0
    /\ received = << [start |-> 0, flagged_claims |-> chunk_flagged] >>
    /\ total_recovery = 0
    /\ all_flagged = ReconcileChunk(chunk_flagged, 0, 1)
    /\ flagged = all_flagged
    /\ total_flagged_amount = SumFlaggedAmount(flagged)
    /\ recovery_potential = RecoveryEstimate(0, total_flagged_amount)
    /\ denial_stats = AggregateAll(<< >>, flagged)
    /\ appeal_idx = 0
    /\ appeals = << >>
    /\ result = NoResult
    /\ error = NoError
    /\ calls = << AuditCall(1) >>

NextAppeals ==
    \/ GenerateAppealAny
    \/ Summarize

SpecAppeals == InitAppeals /\ [][NextAppeals]_vars

\* The summary builder, applied to the findings of a run on a table of one
\* claim whose only chunk returned at most MaxSummaryCodes denial codes, the
\* k-th of them on cnt[k] findings: every code once, in order, then the
\* further findings of each code.  The handler stands at line 372.
SummaryCode(k) == "CO-" \o ToString(k)

SummaryFinding(k) == Finding(Num(1), SummaryCode(k), "r" \o ToString(k))

RECURSIVE FurtherFindings(_, _)
FurtherFindings(cnt, k) ==
    IF k > Len(cnt) THEN << >>
    ELSE [j \in 1..(cnt[k] - 1) |-> SummaryFinding(k)] \o FurtherFindings(cnt, k + 1)

SummaryLists ==
    { [k \in 1..Len(cnt) |-> SummaryFinding(k)] \o FurtherFindings(cnt, 1) :
        cnt \in UNION { [1..n -> 1..MaxCodeCount] : n \in 0..MaxSummaryCodes } }

InitSummary ==
    /\ total_claims = 1
    /\ chunk_size = DefaultChunkSize
    /\ chunk_idx = 1
    /\ chunk_start = 0
    /\ chunk_end = 1
    /\ chunks = << << 0, 1 >> >>
    /\ pc = "Summarizing"
    /\ response = [kind |-> "Text", json |-> "ok"]
    /\ chunk_flagged \in SummaryLists
    /\ ai_output = [syntax |-> "object", obj |-> ("flagged_claims" :> chunk_flagged)]
    /\ chunk_recovery = 0
    /\ received = << [start |-> 0, flagged_claims |-> chunk_flagged] >>
    /\ total_recovery = 0
    /\ all_flagged = ReconcileChunk(chunk_flagged, 0, 1)
    /\ flagged = all_flagged
    /\ total_flagged_amount = SumFlaggedAmount(flagged)
    /\ recovery_potential = RecoveryEstimate(0, total_flagged_amount)
    /\ denial_stats = AggregateAll(<< >>, flagged)
    /\ appeal_idx = Min(AppealCap, Len(flagged))
    /\ appeals = [i \in 1..Min(AppealCap, Len(flagged)) |-> Letter(i)]
    /\ result = NoResult
    /\ error = NoError
    /\ calls = << AuditCall(1) >> \o [i \in 1..Min(AppealCap, Len(flagged)) |-> AppealCall(i)]

NextSummary == Summarize

SpecSummary == InitSummary /\ [][NextSummary]_vars

\* The whole pipeline with a capability that answers a chunk with nothing,
\* with no text, with prose, with a JSON array, with a finding whose row is
\* no number, or with 0, 1 or MaxCallFindings well-formed findings (at most
\* MaxCallFindings over the run), and whose appeal calls fail at most
\* MaxAppealFailures times in a run
CallFindingCounts == { 0, 1, MaxCallFindings }

CallDoc(fc) ==
    [syntax |-> "object", obj |-> ("flagged_claims" :> fc) @@ ("total_recovery" :> Num(0))]

CallResponses(most) ==
    { [kind |-> k, text |-> << >>, doc |-> NoDoc] : k \in {"None", "NoText"} }
    \cup { [kind |-> "Text", text |-> << Prose >>, doc |-> NoDoc],
           [kind |-> "Text", text |-> << Doc >>, doc |-> [syntax |-> "array", obj |-> EmptyDict]],
           [kind |-> "Text", text |-> << Doc >>,
            doc |-> CallDoc(<< Finding(NonNumeric, "CO-11", "r1") >>)] }
    \cup { [kind |-> "Text", text |-> << FenceJson, Ws, Doc, Ws, Fence >>,
            doc |-> CallDoc([j \in 1..n |-> Finding(Num(1), "CO-11", "r1")])] :
             n \in { c \in CallFindingCounts : c <= most } }

InitCalls ==
    /\ total_claims \in { 1, DefaultChunkSize + 1 }
    /\ chunk_size = DefaultChunkSize
    /\ InitLocals

RequestCalls == RequestFrom(CallResponses(MaxCallFindings - Len(all_flagged)))

\* the appeal calls so far that gave no letter
AppealFailures ==
    appeal_idx - Cardinality({ i \in 1..Len(appeals) : appeals[i].kind = "letter" })

GenerateAppealCalls ==
    GenerateAppealFrom(IF AppealFailures < MaxAppealFailures THEN AppealOutcomes
                       ELSE { "Text" })

NextCalls ==
    \/ ChunkLoop
    \/ RequestCalls
    \/ Reconcile
    \/ Summing
    \/ Estimate
    \/ Aggregate
    \/ GenerateAppealCalls
    \/ Summarize

SpecCalls == InitCalls /\ [][NextCalls]_vars

\* The estimator alone, applied to every R and A of the bounds
InitEstimator ==
    /\ total_claims = 1
    /\ chunk_size = DefaultChunkSize
    /\ \E R \in (0 - MaxMoney)..(2 * MaxMoney), A \in { 10 * a : a \in (0 - MaxMoney)..MaxMoney } :
         /\ A \in (0 - MaxMoney)..MaxMoney
         /\ chunk_idx = 0
         /\ chunk_start = 0
         /\ chunk_end = 0
         /\ pc = "Estimating"
         /\ response = [kind |-> "none yet", json |-> "none"]
         /\ ai_output = [syntax |-> "none", obj |-> EmptyDict]
         /\ chunk_flagged = << >>
         /\ chunk_recovery = 0
         /\ all_flagged = << >>
         /\ total_recovery = R
         /\ flagged = << >>
         /\ total_flagged_amount = A
         /\ recovery_potential = 0
         /\ denial_stats = << >>
         /\ appeal_idx = 0
         /\ appeals = << >>
         /\ result = NoResult
         /\ error = NoError
         /\ chunks = << >>
         /\ received = << >>
         /\ calls = << >>

NextEstimator == Estimate

SpecEstimator == InitEstimator /\ [][NextEstimator]_vars

---------------------------------------------------------------------------
(* Properties *)

\* the findings the capability returned, in the order received, each with the
\* chunk_start of its chunk
RECURSIVE ReceivedFrom(_)
ReceivedFrom(rs) ==
    IF rs = << >> THEN << >>
    ELSE [j \in 1..Len(Head(rs).flagged_claims) |->
            [start |-> Head(rs).start, raw |-> Head(rs).flagged_claims[j]]]
         \o ReceivedFrom(Tail(rs))

ReceivedFlat == ReceivedFrom(received)

\* C1: the (chunk_start, chunk_end) pairs of the chunk loop partition [0, N):
\* the first starts at 0, each starts where the previous one ended, every chunk
\* but the last has length C, and once the loop is left the last one ends at N
\* and has length N mod C, or C when N mod C = 0.
C1_ChunksPartition ==
    /\ chunks # << >> => chunks[1][1] = 0
    /\ \A i \in 1..Len(chunks) : chunks[i][1] < chunks[i][2] /\ chunks[i][2] <= total_claims
    /\ \A i \in 1..(Len(chunks) - 1) :
         /\ chunks[i + 1][1] = chunks[i][2]
         /\ chunks[i][2] - chunks[i][1] = chunk_size
    /\ pc = "Summing" =>
         /\ chunks # << >>
         /\ chunks[Len(chunks)][2] = total_claims
         /\ chunks[Len(chunks)][2] - chunks[Len(chunks)][1] =
              (IF total_claims % chunk_size = 0 THEN chunk_size
               ELSE total_claims % chunk_size)

\* the loop left after three or more chunks, the last one short
C1_Witness ==
    /\ pc = "Summing"
    /\ Len(chunks) >= 3
    /\ total_claims % chunk_size # 0
    /\ chunk_size > 1

\* the capability gave no response, a response without text, or text that is
\* not JSON once the fences are off
BadResponse ==
    \/ response.kind \in { "None", "NoText" }
    \/ response.kind = "Text" /\ response.json = "invalid"

\* C2: when a chunk's response is absent, has no text or does not parse, the
\* run is failed and no AuditResult is returned, whatever was accumulated.
C2_FailFast ==
    /\ BadResponse => pc = "Failed" /\ result = NoResult /\ error # NoError
    /\ pc = "Failed" => result = NoResult

\* a later chunk fails after an earlier one contributed findings and recovery
C2_Witness ==
    /\ BadResponse
    /\ pc = "Failed"
    /\ Len(all_flagged) > 0
    /\ total_recovery > 0

\* C3: the run fails only while a chunk is requested or reconciled.
C3_FailedOnlyFromChunk ==
    [][pc' = "Failed" => pc \in { "Requesting", "Reconciling" }]_vars

\* C4: on a successful run the appeals are min(20, len(flagged)) entries, entry
\* i the letter of the call made for finding i or the placeholder naming
\* finding i's reason.
C4_AppealsAligned ==
    pc = "Complete" =>
        /\ Len(result.appeals) = Min(AppealCap, Len(result.flagged))
        /\ \A i \in 1..Len(result.appeals) :
             i <= Len(result.flagged) =>
                \/ result.appeals[i] = [kind |-> "letter", call |-> i, reason |-> ""]
                \/ /\ result.appeals[i].kind = "placeholder"
                   /\ result.appeals[i].reason =
                        (IF Has(result.flagged[i], "reason")
                         THEN result.flagged[i].reason ELSE "Unknown")

\* a finding's row is a row of the table
InTable(f) == Has(f, "row") /\ 0 <= f.row.n /\ f.row.n < total_claims

\* C5: a finding whose absolute row is a row of the table carries that row's
\* amount as claim_amount, in the accumulated findings and in the result.
C5_ClaimAmountFromTable ==
    /\ \A i \in 1..Len(all_flagged) :
         InTable(all_flagged[i]) =>
            /\ Has(all_flagged[i], "claim_amount")
            /\ all_flagged[i].claim_amount = Num(df(all_flagged[i].row.n).amount)
    /\ pc = "Complete" =>
         \A i \in 1..Len(result.flagged) :
            InTable(result.flagged[i]) =>
               /\ Has(result.flagged[i], "claim_amount")
               /\ result.flagged[i].claim_amount = Num(df(result.flagged[i].row.n).amount)

\* a returned finding with a row of the table, for which the capability gave
\* another claim_amount than the table's
C5_Witness ==
    /\ pc = "Complete"
    /\ \E i \in 1..Len(result.flagged) :
         /\ InTable(result.flagged[i])
         /\ Has(ReceivedFlat[i].raw, "claim_amount")
         /\ ReceivedFlat[i].raw.claim_amount # result.flagged[i].claim_amount

\* the RawFinding reports a row, and it leads to a row of the table
Reconcilable(raw, start) ==
    /\ Has(raw, "row")
    /\ 0 <= start + raw.row.n - 1
    /\ start + raw.row.n - 1 < total_claims

\* C6: a RawFinding with row k of the chunk starting at start gets row
\* start + k - 1; if that is a row of the table its claim_amount, and each
\* table field the capability did not give, come from that row; a finding with
\* a row outside the table, or with no row, keeps only what the capability
\* returned.
C6_EnrichedOnlyWhenReconciled ==
    \A i \in 1..Len(all_flagged) :
        LET raw == ReceivedFlat[i].raw
            start == ReceivedFlat[i].start
            f == all_flagged[i]
        IN  /\ Has(raw, "row") => Has(f, "row") /\ f.row = Num(start + raw.row.n - 1)
            /\ Reconcilable(raw, start) =>
                 LET row == df(start + raw.row.n - 1)
                 IN  /\ DOMAIN f = DOMAIN raw \cup { "patient_id", "procedure_code",
                                                    "diagnosis_code", "claim_amount" }
                     /\ f.claim_amount = Num(row.amount)
                     /\ f.patient_id = (IF Has(raw, "patient_id") THEN raw.patient_id
                                        ELSE ToString(row.patient_id))
                     /\ f.procedure_code = row.procedure_code
                     /\ f.diagnosis_code = row.diagnosis_code
            /\ ~Reconcilable(raw, start) =>
                 /\ DOMAIN f = DOMAIN raw
                 /\ \A k \in DOMAIN raw \ { "row" } : f[k] = raw[k]

\* a returned finding is the received one: the same keys of the capability,
\* with the values it gave for all but row and claim_amount
SameFinding(f, raw) ==
    /\ DOMAIN raw \subseteq DOMAIN f
    /\ Has(f, "row") <=> Has(raw, "row")
    /\ \A k \in DOMAIN raw \ { "row", "claim_amount" } : f[k] = raw[k]

\* C7: on a successful run flagged is the concatenation, in ascending chunk
\* order, of the chunks' flagged_claims in the order received: none dropped,
\* duplicated or reordered.
C7_FlaggedIsConcatenation ==
    pc = "Complete" =>
        /\ \A k \in 1..Len(received) : received[k].start = (k - 1) * chunk_size
        /\ Len(result.flagged) = Len(ReceivedFlat)
        /\ \A i \in 1..Len(ReceivedFlat) :
             i <= Len(result.flagged) => SameFinding(result.flagged[i], ReceivedFlat[i].raw)

\* two chunks that each returned a finding, one of them with a row outside
\* the table
C7_Witness ==
    /\ pc = "Complete"
    /\ Len(received) = 2
    /\ \A k \in 1..2 : Len(received[k].flagged_claims) = 1
    /\ \E i \in 1..Len(result.flagged) :
         Has(result.flagged[i], "row") /\ ~InTable(result.flagged[i])
    /\ Len(result.flagged) = 2
    /\ \A i \in 1..2 : Has(result.flagged[i], "denial_code")
    /\ result.flagged[1].denial_code # result.flagged[2].denial_code

\* C8: with R the summed total_recovery and A the total flagged amount, the
\* estimate is R when R > 0 and R <= 1.5 A; otherwise 0.70 A when A > 0;
\* otherwise R when R > 0, and 0 when R <= 0.
C8_RecoveryEstimate ==
    pc = "Aggregating" =>
        LET R == total_recovery
            A == total_flagged_amount
            est == recovery_potential
        IN  /\ (R > 0 /\ 2 * R <= 3 * A) => est = R
            /\ (~(R > 0 /\ 2 * R <= 3 * A) /\ A > 0) => 10 * est = 7 * A
            /\ (~(R > 0 /\ 2 * R <= 3 * A) /\ A <= 0 /\ R > 0) => est = R
            /\ (~(R > 0 /\ 2 * R <= 3 * A) /\ A <= 0 /\ R <= 0) => est = 0

\* R beyond 1.5 A: A = 10 and R = 20 give 7
C8_Witness ==
    /\ pc = "Aggregating"
    /\ total_flagged_amount = 10
    /\ total_recovery = 20
    /\ recovery_potential = 7

RECURSIVE SumCounts(_)
SumCounts(stats) == IF stats = << >> THEN 0 ELSE Head(stats).count + SumCounts(Tail(stats))

\* C9: after aggregation the counts of denial_stats add up to the number of
\* findings, every count is at least 1, each bucket counts exactly the findings
\* of its denial_code, and a finding without denial_code is in bucket UNKNOWN.
C9_DenialCounts ==
    pc \in { "AppealGenerating", "Summarizing", "Complete" } =>
        /\ SumCounts(denial_stats) = Len(flagged)
        /\ \A k \in 1..Len(denial_stats) :
             /\ denial_stats[k].count >= 1
             /\ \A m \in 1..Len(denial_stats) :
                  denial_stats[m].code = denial_stats[k].code => m = k
             /\ denial_stats[k].count =
                  Cardinality({ i \in 1..Len(flagged) :
                                  \/ Has(flagged[i], "denial_code")
                                     /\ flagged[i].denial_code = denial_stats[k].code
                                  \/ ~Has(flagged[i], "denial_code")
                                     /\ denial_stats[k].code = "UNKNOWN" })
        /\ \A i \in 1..Len(flagged) :
             \E k \in 1..Len(denial_stats) :
                denial_stats[k].code = (IF Has(flagged[i], "denial_code")
                                        THEN flagged[i].denial_code ELSE "UNKNOWN")

\* a finding without denial_code next to one with a denial_code
C9_Witness ==
    /\ pc = "Complete"
    /\ Len(denial_stats) = 2
    /\ \E i \in 1..Len(flagged) : ~Has(flagged[i], "denial_code")
    /\ \E k \in 1..Len(denial_stats) :
         denial_stats[k].code = "UNKNOWN" /\ denial_stats[k].count = 1

\* C10: a parsed response without flagged_claims gives an empty finding list,
\* one without total_recovery or with a total_recovery that is no number gives
\* a recovery of 0, and in both cases the chunk goes on to reconciliation.
C10_DefaultsKeepRunning ==
    [][(pc = "Requesting" /\ response'.json = "ok" /\ ai_output'.syntax = "object") =>
          /\ ~Has(ai_output'.obj, "flagged_claims") =>
                chunk_flagged' = << >> /\ pc' = "Reconciling"
          /\ (\/ ~Has(ai_output'.obj, "total_recovery")
              \/ ~IsNum(ai_output'.obj.total_recovery)) =>
                chunk_recovery' = 0 /\ pc' = "Reconciling"]_vars

\* C11: when the run failed on a response that is absent, without text or not
\* JSON, the error given to the caller names the ordinal of the chunk that was
\* being processed and the kind of the failure.
C11_ErrorNamesChunk ==
    (pc = "Failed" /\ BadResponse) =>
        /\ error.chunk = chunk_idx
        /\ error.chunk = chunk_start \div chunk_size + 1
        /\ error.cause = (IF response.kind = "Text" THEN "JSONDecodeError"
                          ELSE "No response from AI model")

RECURSIVE SumTotals(_)
SumTotals(stats) ==
    IF stats = << >> THEN 0 ELSE Head(stats).total_amount + SumTotals(Tail(stats))

\* C14: on a successful run the total_amount of the denial_stats entries add
\* up to total_flagged_amount, whatever claim_amount and amount the findings
\* carry.
C14_StatsMatchFlaggedAmount ==
    pc = "Complete" => SumTotals(result.denial_stats) = result.total_flagged_amount

\* the place of entry k of denial_stats when the codes are ordered by count,
\* largest first, codes of equal count in the order of denial_stats
Rank(stats, k) ==
    1 + Cardinality({ m \in 1..Len(stats) :
                        \/ stats[m].count > stats[k].count
                        \/ stats[m].count = stats[k].count /\ m < k })

\* C12: with the denial codes ordered by count descending and codes of equal
\* count in the insertion order of denial_stats, summary.top_denials is the
\* first min(5, number of codes) of them, and the prose line and the per-code
\* recommended actions use the first min(3, number of codes); with no finding
\* top_denials is empty.
C12_TopDenialsOrder ==
    pc = "Complete" =>
        LET stats == result.denial_stats
            sm == result.summary
        IN  /\ Len(result.flagged) = 0 => sm.top_denials = << >>
            /\ Len(result.flagged) > 0 =>
                 /\ Len(sm.top_denials) = Min(TopStructured, Len(stats))
                 /\ Len(sm.top_prose) = Min(TopProse, Len(stats))
                 /\ Len(sm.recommended_actions) >= Min(TopProse, Len(stats))
                 /\ \A k \in 1..Len(stats) :
                      /\ Rank(stats, k) <= TopStructured =>
                           sm.top_denials[Rank(stats, k)] = stats[k]
                      /\ Rank(stats, k) <= TopProse =>
                           /\ sm.top_prose[Rank(stats, k)] = stats[k].code
                           /\ sm.recommended_actions[Rank(stats, k)] = stats[k].code

\* more codes than top_denials holds, a code of larger count inserted after one
\* of smaller count, and two codes of equal count of which only the first
\* inserted is among the top three
C12_Witness ==
    /\ pc = "Complete"
    /\ Len(result.denial_stats) > TopStructured
    /\ \E k, m \in 1..Len(result.denial_stats) :
         k < m /\ result.denial_stats[k].count < result.denial_stats[m].count
    /\ \E k, m \in 1..Len(result.denial_stats) :
         /\ k < m
         /\ result.denial_stats[k].count = result.denial_stats[m].count
         /\ Rank(result.denial_stats, k) = TopProse
         /\ Rank(result.denial_stats, m) = TopProse + 1

\* line 228: the number of chunks of the table
TotalChunks == (total_claims - 1) \div chunk_size + 1

\* C13: the calls of the capability are one audit call per chunk in ascending
\* chunk order, then one appeal call per finding in finding order; an audit
\* call is made only when every earlier chunk was parsed and reconciled; a
\* failed run made no call after the one of the chunk that failed; appeal
\* calls are made only when every chunk succeeded, and once the appeal loop is
\* left there is exactly one for each of the first min(20, number of findings)
\* findings, whether or not earlier appeal calls failed.
C13_CallSequence ==
    LET a == Cardinality({ i \in 1..Len(calls) : calls[i].kind = "audit" })
        b == Len(calls) - a
    IN  /\ calls = [i \in 1..a |-> [kind |-> "audit", n |-> i]]
                   \o [i \in 1..b |-> [kind |-> "appeal", n |-> i]]
        /\ a = (IF pc = "Requesting" THEN chunk_idx - 1 ELSE chunk_idx)
        /\ a <= TotalChunks
        /\ a >= 1 =>
             /\ Len(received) >= a - 1
             /\ Len(all_flagged) >= Len(ReceivedFrom(SubSeq(received, 1, a - 1)))
        /\ pc = "Failed" => b = 0 /\ Len(calls) = chunk_idx
        /\ pc \in { "Summing", "Estimating", "Aggregating", "AppealGenerating",
                    "Summarizing", "Complete" } => a = TotalChunks
        /\ b > 0 =>
             /\ a = TotalChunks
             /\ Len(received) = TotalChunks
             /\ Len(all_flagged) = Len(ReceivedFlat)
             /\ error = NoError
        /\ b = appeal_idx
        /\ pc \in { "Summarizing", "Complete" } => b = Min(AppealCap, Len(flagged))

\* a run of two chunks with more than 20 findings that completed although an
\* appeal call raised and another gave no letter
C13_Witness ==
    /\ pc = "Complete"
    /\ TotalChunks = 2
    /\ Len(flagged) > AppealCap
    /\ Len(calls) = TotalChunks + AppealCap
    /\ Len(appeals) = AppealCap - 1
    /\ appeals[1].kind = "placeholder"

====
